---------------------------- MODULE Spec2Model ----------------------------
(***************************************************************************)
(* Model of the multi-person ROI tracker of src/pose.py (PoseProcessor):   *)
(* the geometry helpers, ROI seeding, the per-frame tracking / reseed /    *)
(* dedup step, teardown, and the frame loop of extract_pose_features and   *)
(* embed_pose_video; and of the two batch loops of src/audio.py            *)
(* (AudioProcessor).                                                       *)
(*                                                                         *)
(* Numbers.  Pixel coordinates are integers.  The floating point values of *)
(* the code are rationals with small denominators (margin 0.25, alpha 0.5, *)
(* IoU = inter/union), so every comparison the code makes on them is done  *)
(* here exactly, on cross-multiplied integers.  The only irrational value  *)
(* is the centre distance sqrt(dx^2+dy^2); it is compared by squaring      *)
(* (the gate) or carried in fixed point (the assignment's cost order).     *)
(***************************************************************************)
EXTENDS Integers, Sequences, FiniteSets, TLC

(***************************************************************************)
(* Bounds of the model.                                                    *)
(***************************************************************************)
\* frames decoded from one video
MaxFrames == 5
\* frames decoded from one video while two or more ROIs are tracked
MaxCrowdFrames == 3
\* boxes the person detector returns for one frame
MaxDet == 3
\* PoseProcessor.frame_threshold (configurable, default 10), kept small
FrameThreshold == 2
\* coordinates of the geometry specification range over -GeomPad .. size+GeomPad
GeomPad == 2
\* largest frame side of the geometry specification
GeomMaxSide == 2
\* resolution of the fixed-point cost used to order assignments
CostScale == 1000
\* largest side, and largest entry, of the cost matrices of the assignment specification
AssignMaxSide == 3
AssignMaxCost == 2
\* largest coordinate of the boxes of the overlap specification
\* the longest audio_files list given to a batch call
MaxFiles == 3

IoUMaxCoord == 2

(***************************************************************************)
(* Program constants.                                                      *)
(***************************************************************************)
\* margin_ratio = 0.25 = MarginNum / MarginDen
MarginNum == 1
MarginDen == 4
\* smooth_alpha = 0.5 = AlphaNum / AlphaDen
AlphaNum == 1
AlphaDen == 2
\* reserved_iou = 0.5
ReservedNum == 1
ReservedDen == 2
\* dedup overlap threshold 0.55 = 11/20
DedupNum == 11
DedupDen == 20
\* overlap_streak needed on both slots before a drop
StreakLimit == 3
\* lambda_iou = 0.5
LambdaNum == 1
LambdaDen == 2
\* max_dist = 0.08 * diag, 0.08 = 2/25
GateNum == 2
GateDen == 25
\* class id of "person" in the detector's output
PersonClass == 0

(***************************************************************************)
(* The video's frame size (w, h read from the capture).  4 x 3 has the     *)
(* integer diagonal 5, so that 0.08 * diag is the rational 2/5.            *)
(***************************************************************************)
FrameW == 4
FrameH == 3

VARIABLES
    mode,         \* enable_multi_person_pose
    pc,           \* "loop": in the frame loop; "done": returned; "raised": an exception left the routine
    frame_idx,    \* frame_idx of the running routine
    keypoints_by_person,  \* the rows collected so far, per person_id, in append order
    locked_rois,  \* the routine's locked_rois list
    nextPose,     \* number of mp.solutions.pose.Pose objects constructed for ROIs so far
    released,     \* the ROI Pose objects on which close() has been called
    yolo,         \* self.yolo is not None
    last,         \* observation of the last loop iteration (inputs, intermediate lists, outputs)
    runs,         \* observation across iterations: lengths of the current runs of frames
    probe         \* state of the specifications of the pure functions

vars == <<mode, pc, frame_idx, keypoints_by_person, locked_rois, nextPose, released, yolo, last, runs, probe>>

(***************************************************************************)
(* Arithmetic helpers.                                                     *)
(***************************************************************************)
Max(a, b) == IF a >= b THEN a ELSE b
Min(a, b) == IF a <= b THEN a ELSE b

\* Python's int() of the rational n/d (d > 0): truncation toward zero
Trunc(n, d) == IF n >= 0 THEN n \div d ELSE -((-n) \div d)

RECURSIVE IsqrtSearch(_, _, _)
IsqrtSearch(n, lo, hi) ==
    IF lo >= hi THEN lo
    ELSE LET mid == (lo + hi + 1) \div 2
         IN IF mid * mid <= n THEN IsqrtSearch(n, mid, hi)
                               ELSE IsqrtSearch(n, lo, mid - 1)

\* floor(sqrt(n)) for 0 <= n < 2^31
Isqrt(n) == IsqrtSearch(n, 0, Min(n, 46340))

(***************************************************************************)
(* Geometry utilities.  A box is <<x1, y1, x2, y2>>.                       *)
(***************************************************************************)

\* _expand_and_clip_bbox, one axis, on the degenerate path (line 239):
\* the input clipped to the frame, unmodified otherwise
ClipAxisDegenerate(lo, hi, size) ==
    <<Max(0, Min(size - 1, lo)), Max(0, Min(size, hi))>>

\* _expand_and_clip_bbox, one axis, on the regular path (lines 241-261), in
\* units of 1/MarginDen pixel: expand, clip, restore the order, int()
ClipAxisExpanded(lo, hi, size) ==
    LET m    == (hi - lo) * MarginNum
        e1   == Max(0, Min(lo * MarginDen - m, (size - 1) * MarginDen))
        e2c  == Max(0, Min(hi * MarginDen + m, size * MarginDen))
        e2   == IF e2c <= e1 THEN Min(size * MarginDen, e1 + MarginDen) ELSE e2c
    IN <<Trunc(e1, MarginDen), Trunc(e2, MarginDen)>>

\* _expand_and_clip_bbox(x1, y1, x2, y2, image_width, image_height, margin_ratio=0.25)
ExpandAndClip(b, w, h) ==
    LET bw == Max(0, b[3] - b[1])
        bh == Max(0, b[4] - b[2])
    IN IF bw <= 0 \/ bh <= 0
       THEN LET xs == ClipAxisDegenerate(b[1], b[3], w)
                ys == ClipAxisDegenerate(b[2], b[4], h)
            IN <<xs[1], ys[1], xs[2], ys[2]>>
       ELSE LET xs == ClipAxisExpanded(b[1], b[3], w)
                ys == ClipAxisExpanded(b[2], b[4], h)
            IN <<xs[1], ys[1], xs[2], ys[2]>>

\* _smooth_box that returns the new box as it is
SmoothBoxNewOnly(old, new) == new

\* _smooth_box(old_box, new_box, alpha): int(alpha*new + (1-alpha)*old) per coordinate
SmoothBox(old, new) ==
    [k \in 1..4 |-> Trunc(AlphaNum * new[k] + (AlphaDen - AlphaNum) * old[k], AlphaDen)]

\* inter_area of _iou
InterArea(a, b) ==
    Max(0, Min(a[3], b[3]) - Max(a[1], b[1])) * Max(0, Min(a[4], b[4]) - Max(a[2], b[2]))

\* area_a / area_b of _iou
BoxArea(a) == Max(0, a[3] - a[1]) * Max(0, a[4] - a[2])

\* _iou with the two areas added up and the intersection not taken off
IoUUnionSum(a, b) ==
    LET inter == InterArea(a, b)
        union == BoxArea(a) + BoxArea(b)
    IN IF union <= 0 THEN <<0, 1>> ELSE <<inter, union>>

\* _iou without the test of line 287: a union of 0 is divided by
IoUNoGuard(a, b) == <<InterArea(a, b), BoxArea(a) + BoxArea(b) - InterArea(a, b)>>

\* _iou(a, b) as the fraction <<numerator, denominator>>; 0.0 when union <= 0
IoU(a, b) ==
    LET inter == InterArea(a, b)
        union == BoxArea(a) + BoxArea(b) - inter
    IN IF union <= 0 THEN <<0, 1>> ELSE <<inter, union>>

\* _iou(a, b) >= num/den
IoUAtLeast(a, b, num, den) == IoU(a, b)[1] * den >= num * IoU(a, b)[2]

\* _iou(a, b) > num/den
IoUAbove(a, b, num, den) == IoU(a, b)[1] * den > num * IoU(a, b)[2]

\* the box is inside the frame with positive width and height
ValidBox(b, w, h) ==
    /\ 0 <= b[1] /\ b[1] < b[3] /\ b[3] <= w
    /\ 0 <= b[2] /\ b[2] < b[4] /\ b[4] <= h


(***************************************************************************)
(* The person detector's outputs.  A detection is [box, cls]; the code     *)
(* reads b[:4] (the box, truncated to integers) and b[5] (the class).      *)
(* Catalogue holds the detections a frame may show, well-formed and        *)
(* malformed; the detector returns any MaxDet of them, in catalogue order. *)
(***************************************************************************)
Catalogue ==
    << [box |-> <<2, 1, 3, 3>>, cls |-> 0],
       [box |-> <<2, 0, 4, 3>>, cls |-> 0],
       [box |-> <<3, 0, 4, 2>>, cls |-> 0],
       [box |-> <<2, 2, 2, 2>>, cls |-> 0],
       [box |-> <<0, 0, 4, 3>>, cls |-> 1] >>

RECURSIVE PickFrom(_, _)
\* the catalogue entries whose index is in s, in catalogue order, from index k on
PickFrom(s, k) ==
    IF k > Len(Catalogue) THEN <<>>
    ELSE IF k \in s THEN <<Catalogue[k]>> \o PickFrom(s, k + 1)
         ELSE PickFrom(s, k + 1)

\* results.xyxy[0] of self.yolo.predict(image_rgb, size=640)
DetectorOutputs ==
    {PickFrom(s, 1) : s \in {t \in SUBSET (1..Len(Catalogue)) : Cardinality(t) <= MaxDet}}

\* person_boxes without the class test: every detection is taken for a person
PersonBoxesAnyClass(dets) == [k \in 1..Len(dets) |-> dets[k].box]

RECURSIVE PersonBoxes(_)
\* person_boxes = [b[:4].int().tolist() for b in boxes if int(b[5]) == 0]
PersonBoxes(dets) ==
    IF dets = <<>> THEN <<>>
    ELSE IF Head(dets).cls = PersonClass
         THEN <<Head(dets).box>> \o PersonBoxes(Tail(dets))
         ELSE PersonBoxes(Tail(dets))

\* the person_boxes lists the detector's outputs give
PersonBoxLists == {PersonBoxes(d) : d \in DetectorOutputs}

(***************************************************************************)
(* ROI records.  uid is not a field of the code's dict: it names the dict  *)
(* object itself (its identity), which the list keeps across frames.       *)
(***************************************************************************)
Box(r) == <<r.x1, r.y1, r.x2, r.y2>>

WithBox(r, b) == [r EXCEPT !.x1 = b[1], !.y1 = b[2], !.x2 = b[3], !.y2 = b[4]]

\* the ROI appended at line 71 for the k-th person box
NewRoi(b, pose, uid) ==
    [x1 |-> b[1], y1 |-> b[2], x2 |-> b[3], y2 |-> b[4],
     lost |-> 0, pose |-> pose, overlap_streak |-> 0, uid |-> uid]

\* the loop of _seed_rois_if_needed over person_boxes (lines 68-71)
SeedRois(boxes, w, h, firstPose) ==
    [k \in 1..Len(boxes) |-> NewRoi(ExpandAndClip(boxes[k], w, h), firstPose + k - 1, k)]

(***************************************************************************)
(* Tracking pass (lines 86-104).  res[i] is what ROI i's estimator         *)
(* returned: "hit" (pose_landmarks) or "miss".                             *)
(***************************************************************************)
\* a tracking pass that moves the ROI's left edge towards the person on a hit
TrackRoiFollows(r, outcome) ==
    IF outcome = "hit" THEN [r EXCEPT !.lost = 0, !.x1 = Max(0, r.x1 - 1)]
    ELSE [r EXCEPT !.lost = r.lost + 1]

\* one iteration of the loop at line 86 without line 91: a hit leaves lost as it was
TrackRoiNoReset(r, outcome) ==
    IF outcome = "hit" THEN r ELSE [r EXCEPT !.lost = r.lost + 1]

\* one iteration of the loop at line 86
TrackRoi(r, outcome) ==
    IF outcome = "hit" THEN [r EXCEPT !.lost = 0] ELSE [r EXCEPT !.lost = r.lost + 1]

\* the list after the first upTo iterations of the loop at line 86
TrackPass(rois, res, upTo) ==
    [i \in 1..Len(rois) |-> IF i <= upTo THEN TrackRoi(rois[i], res[i]) ELSE rois[i]]

RECURSIVE IndicesFrom(_, _, _)
IndicesFrom(S, k, n) ==
    IF k > n THEN <<>>
    ELSE IF k \in S THEN <<k>> \o IndicesFrom(S, k + 1, n) ELSE IndicesFrom(S, k + 1, n)

\* outputs numbered by their place among the hits instead of the list index
OutputsRenumbered(rois, res) ==
    LET idx == IndicesFrom({i \in 1..Len(rois) : res[i] = "hit"}, 1, Len(rois))
    IN [k \in 1..Len(idx) |-> [person_id |-> k - 1, uid |-> rois[idx[k]].uid]]

\* outputs (line 98): the person_id (list index, from 0) of every ROI that hit,
\* in list order; uid names the ROI object whose landmarks the entry carries
Outputs(rois, res) ==
    LET idx == IndicesFrom({i \in 1..Len(rois) : res[i] = "hit"}, 1, Len(rois))
    IN [k \in 1..Len(idx) |-> [person_id |-> idx[k] - 1, uid |-> rois[idx[k]].uid]]

\* rois_needing_reseed without the test of line 103: every slot that missed
NeedReseedAnyMiss(tracked, res) ==
    IndicesFrom({i \in 1..Len(tracked) : res[i] = "miss"}, 1, Len(tracked))

\* rois_needing_reseed: the list indices (from 1 here) appended at line 104
NeedReseed(tracked, res) ==
    IndicesFrom({i \in 1..Len(tracked) : res[i] = "miss" /\ tracked[i].lost >= FrameThreshold},
                1, Len(tracked))

(***************************************************************************)
(* Reseed step (lines 107-179).                                            *)
(***************************************************************************)
\* one call of self.yolo.predict for every slot that needs reseed
ReseedCallsPerSlot(need) == Len(need)

\* the number of calls of self.yolo.predict in the reseed step (lines 107-108)
ReseedCalls(need) == IF need # <<>> THEN 1 ELSE 0

\* healthy_boxes (lines 113-114)
HealthyBoxes(tracked) == {Box(tracked[i]) : i \in {j \in 1..Len(tracked) : tracked[j].lost = 0}}

\* the conflict test of lines 119-122 and 163-166
Conflicts(b, healthy) == \E hb \in healthy : IoUAtLeast(b, hb, ReservedNum, ReservedDen)

\* a mutant of FilterReserved: nothing is reserved
FilterReservedNone(boxes, healthy) == boxes

\* filtered_boxes (lines 116-125)
FilterReserved(boxes, healthy) == SelectSeq(boxes, LAMBDA b : ~Conflicts(b, healthy))

\* image diagonal: np.sqrt(w*w + h*h), an integer for the frame sizes used
DiagSq(w, h) == w * w + h * h
Diag(w, h) == Isqrt(DiagSq(w, h))

\* 4 * (dx*dx + dy*dy) for the centres of a and b (_roi_center gives half-integers)
CentreDistSq4(a, b) ==
    ((b[1] + b[3]) - (a[1] + a[3])) * ((b[1] + b[3]) - (a[1] + a[3]))
  + ((b[2] + b[4]) - (a[2] + a[4])) * ((b[2] + b[4]) - (a[2] + a[4]))

\* cost[i, j] = dist_norm + lambda_iou * (1 - iou) (line 147) in units of 1/CostScale,
\* each of the two terms rounded down
CostFx(roiBox, detBox, w, h) ==
    LET iou == IoU(roiBox, detBox)
    IN Isqrt((CentreDistSq4(roiBox, detBox) * CostScale * CostScale) \div (4 * DiagSq(w, h)))
       + (LambdaNum * CostScale * (iou[2] - iou[1])) \div (LambdaDen * iou[2])

\* cost[r_i, c_j] <= max_dist (line 157), exactly.  With d = sqrt(P)/2 the centre
\* distance, D the diagonal and iou = I/U:
\*     d/D + lambda*(1 - I/U) <= (GateNum/GateDen) * D
\* cost is a float32 and max_dist a float64: for D = 5 the float32 nearest to
\* 0.4 is above the float64 0.4, so equality of the exact values compares false.
GatePasses(roiBox, detBox, w, h) ==
    LET iou == IoU(roiBox, detBox)
        D   == Diag(w, h)
        a   == GateDen * LambdaDen * iou[2]
        R   == 2 * D * (GateNum * D * LambdaDen * iou[2]
                         - LambdaNum * GateDen * (iou[2] - iou[1]))
    IN R > 0 /\ a * a * CentreDistSq4(roiBox, detBox) < R * R

\* one function is one-to-one
Injective(f) == \A a \in DOMAIN f, b \in DOMAIN f : f[a] = f[b] => a = b

\* the one-to-one pairings <<row, column>> that use all of the nr rows (nr <= nc)
\* or all of the nc columns
Matchings(nr, nc) ==
    IF nr <= nc
    THEN {{<<r, f[r]>> : r \in 1..nr} : f \in {g \in [1..nr -> 1..nc] : Injective(g)}}
    ELSE {{<<f[c], c>> : c \in 1..nc} : f \in {g \in [1..nc -> 1..nr] : Injective(g)}}

\* the float32 matrix cost (lines 136-147), in fixed point: one entry per
\* <<slot needing reseed, unreserved detection>>
CostMatrix(rows, cols, w, h) ==
    [p \in (1..Len(rows)) \X (1..Len(cols)) |-> CostFx(rows[p[1]], cols[p[2]], w, h)]

RECURSIVE SumCost(_, _)
\* cost[row_ind, col_ind].sum() of the pairing m
SumCost(m, cost) ==
    IF m = {} THEN 0
    ELSE LET p == CHOOSE q \in m : TRUE
         IN cost[p] + SumCost(m \ {p}, cost)

\* the arguments of the function total whose value is within slack of the least
NearMinimal(total, slack) ==
    {m \in DOMAIN total : \A n \in DOMAIN total : total[m] <= total[n] + slack}

\* a mutant of LinearSumAssignment: every row takes a detection of its own
\* choosing, so that one detection may serve several rows
LinearSumAssignmentShared(cost, nr, nc, slack) ==
    {{<<r, f[r]>> : r \in 1..nr} : f \in [1..nr -> 1..nc]}

\* a mutant of LinearSumAssignment: rows are served in order, each taking the
\* cheapest column still free
LinearSumAssignmentGreedy(cost, nr, nc, slack) ==
    {m \in Matchings(nr, nc) :
        \A p \in m : \A c \in 1..nc :
            (\A q \in m : q[2] = c => q[1] > p[1]) => cost[p] <= cost[<<p[1], c>>]}

\* scipy.optimize.linear_sum_assignment(cost) for an nr x nc matrix (line 150):
\* the one-to-one pairings of min(nr, nc) entries of minimum total cost.  Where
\* the matrix is in fixed point, pairings whose totals differ by no more than
\* the rounding (slack) all count as minimal.
LinearSumAssignment(cost, nr, nc, slack) ==
    NearMinimal([m \in Matchings(nr, nc) |-> SumCost(m, cost)], slack)

\* row_ind, col_ind of line 150 for the slots needing reseed (rows) and the
\* unreserved detections (cols); the fixed-point rounding is 2 units per entry
Assignments(rows, cols, w, h) ==
    LinearSumAssignment(CostMatrix(rows, cols, w, h), Len(rows), Len(cols),
                        2 * Min(Len(rows), Len(cols)))

\* the pairs of the assignment that pass the gate (line 157) and the final
\* conflict check (lines 160-168)
Accepted(m, rows, cols, healthy, w, h) ==
    {p \in m : /\ GatePasses(rows[p[1]], cols[p[2]], w, h)
               /\ ~Conflicts(ExpandAndClip(cols[p[2]], w, h), healthy)}

\* a mutant of ReseedRoi: the slot keeps its old, closed estimator
ReseedRoiKeepPose(r, detBox, w, h, pose) ==
    [WithBox(r, SmoothBox(Box(r), ExpandAndClip(detBox, w, h))) EXCEPT !.lost = 0]

\* a mutant of ReseedRoi: lost is not reset
ReseedRoiNoReset(r, detBox, w, h, pose) ==
    [WithBox(r, SmoothBox(Box(r), ExpandAndClip(detBox, w, h))) EXCEPT !.pose = pose]

\* lines 169-179 for one accepted pair: new bounds, new estimator, lost = 0
ReseedRoi(r, detBox, w, h, pose) ==
    [WithBox(r, SmoothBox(Box(r), ExpandAndClip(detBox, w, h)))
        EXCEPT !.pose = pose, !.lost = 0]

\* the reseeds of one frame: for every accepted pair, in row order,
\* [slot, col (index of the detection among the unreserved ones), det (its box),
\* old (pose closed), new (pose constructed)]
Reseeds(acc, need, cols, tracked, firstPose) ==
    {[slot |-> need[p[1]], col |-> p[2], det |-> cols[p[2]],
      old |-> tracked[need[p[1]]].pose,
      new |-> firstPose + Cardinality({q \in acc : q[1] < p[1]})] : p \in acc}

\* a mutant of ReseedStep: reseeded slots move to the end of the list
ReseedStepReorder(tracked, reseeds, w, h) ==
    LET kept  == {i \in 1..Len(tracked) : \A s \in reseeds : s.slot # i}
        moved == {i \in 1..Len(tracked) : \E s \in reseeds : s.slot = i}
        order == IndicesFrom(kept, 1, Len(tracked)) \o IndicesFrom(moved, 1, Len(tracked))
    IN [k \in 1..Len(tracked) |->
          IF \E s \in reseeds : s.slot = order[k]
          THEN LET s == CHOOSE t \in reseeds : t.slot = order[k]
               IN ReseedRoi(tracked[order[k]], s.det, w, h, s.new)
          ELSE tracked[order[k]]]

\* a reseed step that also sets lost to 0 in every slot past frame_threshold,
\* paired with a detection or not
ReseedStepForgivesStale(tracked, reseeds, w, h) ==
    [i \in 1..Len(tracked) |->
        IF \E s \in reseeds : s.slot = i
        THEN LET s == CHOOSE t \in reseeds : t.slot = i
             IN ReseedRoi(tracked[i], s.det, w, h, s.new)
        ELSE IF tracked[i].lost >= FrameThreshold THEN [tracked[i] EXCEPT !.lost = 0]
             ELSE tracked[i]]

\* locked_rois after the loop at line 155
ReseedStep(tracked, reseeds, w, h) ==
    [i \in 1..Len(tracked) |->
        IF \E s \in reseeds : s.slot = i
        THEN LET s == CHOOSE t \in reseeds : t.slot = i
             IN ReseedRoi(tracked[i], s.det, w, h, s.new)
        ELSE tracked[i]]

(***************************************************************************)
(* Dedup pass (lines 185-213).  The loop state is [rois, rm, closed, late]: *)
(* the list with its overlap_streak fields, to_remove, the Pose objects    *)
(* closed so far, in call order, and the pairs <<i, j>> whose comparison   *)
(* (line 194) ran while i was already in to_remove.                        *)
(***************************************************************************)
\* a mutant of DropOf: the first index drops only when its lost is larger
DropOfStrict(ri, rj, i, j) == IF ri.lost > rj.lost THEN i ELSE j

\* drop = i if locked_rois[i]["lost"] >= locked_rois[j]["lost"] else j (line 200)
DropOf(ri, rj, i, j) == IF ri.lost >= rj.lost THEN i ELSE j

\* a mutant of DedupPair: a pair over the limit loses both its ROIs
DedupPairDropsBoth(st, i, j) ==
    IF IoUAbove(Box(st.rois[i]), Box(st.rois[j]), DedupNum, DedupDen)
    THEN LET inc == [st.rois EXCEPT ![i].overlap_streak = @ + 1,
                                    ![j].overlap_streak = @ + 1]
         IN IF inc[i].overlap_streak >= StreakLimit /\ inc[j].overlap_streak >= StreakLimit
            THEN [st EXCEPT !.rois = inc, !.rm = st.rm \cup {i, j},
                            !.closed = st.closed \o <<inc[i].pose, inc[j].pose>>]
            ELSE [st EXCEPT !.rois = inc]
    ELSE [st EXCEPT !.rois = [st.rois EXCEPT ![i].overlap_streak = 0,
                                             ![j].overlap_streak = 0]]

\* the body of the inner loop for the pair (i, j) (lines 194-210)
DedupPair(st, i, j) ==
    IF IoUAbove(Box(st.rois[i]), Box(st.rois[j]), DedupNum, DedupDen)
    THEN LET inc == [st.rois EXCEPT ![i].overlap_streak = @ + 1,
                                    ![j].overlap_streak = @ + 1]
         IN IF inc[i].overlap_streak >= StreakLimit /\ inc[j].overlap_streak >= StreakLimit
            THEN LET drop == DropOf(inc[i], inc[j], i, j)
                 IN [st EXCEPT !.rois = inc, !.rm = st.rm \cup {drop},
                                !.closed = Append(st.closed, inc[drop].pose)]
            ELSE [st EXCEPT !.rois = inc]
    ELSE [st EXCEPT !.rois = [st.rois EXCEPT ![i].overlap_streak = 0,
                                             ![j].overlap_streak = 0]]

\* the comparison of the pair (i, j) is about to run: it is noted when i has
\* been put in to_remove by an earlier pair of the same inner loop
NoteLate(st, i, j) == IF i \in st.rm THEN [st EXCEPT !.late = @ \cup {<<i, j>>}] ELSE st

RECURSIVE DedupInner(_, _, _)
\* for j in range(i + 1, n), skipping the j already in to_remove (lines 191-193);
\* i is tested at line 189 only, before the inner loop starts
DedupInner(st, i, j) ==
    IF j > Len(st.rois) THEN st
    ELSE IF j \in st.rm THEN DedupInner(st, i, j + 1)
         ELSE DedupInner(DedupPair(NoteLate(st, i, j), i, j), i, j + 1)

RECURSIVE DedupOuter(_, _)
\* for i in range(n), skipping the i already in to_remove (lines 188-190)
DedupOuter(st, i) ==
    IF i > Len(st.rois) THEN st
    ELSE IF i \in st.rm THEN DedupOuter(st, i + 1)
         ELSE DedupOuter(DedupInner(st, i, i + 1), i + 1)

\* the whole pass over the list as it stands after the reseed step
DedupPass(rois) == DedupOuter([rois |-> rois, rm |-> {}, closed |-> <<>>, late |-> {}], 1)

\* locked_rois = [r for idx, r in enumerate(locked_rois) if idx not in to_remove]
Compact(rois, rm) ==
    LET keep == IndicesFrom((1..Len(rois)) \ rm, 1, Len(rois))
    IN [k \in 1..Len(keep) |-> rois[keep[k]]]

\* the Pose objects held by the ROIs of a list
Poses(rois) == {rois[i].pose : i \in 1..Len(rois)}

\* the elements of a sequence
Range(seq) == {seq[i] : i \in 1..Len(seq)}

\* the Pose objects of the close() calls seq, in call order, that had been
\* closed already when the call was made: by an earlier call of seq or before (prev)
ClosedAgain(prev, seq) ==
    {seq[n] : n \in {k \in 1..Len(seq) :
                        seq[k] \in prev \/ \E m \in 1..(k - 1) : seq[m] = seq[k]}}


(***************************************************************************)
(* Observations.  last and runs are not state of the program: they record  *)
(* what the last loop iteration read and did, so that properties of one    *)
(* iteration, and of runs of iterations, are state predicates.             *)
(*   outputs  the (person_id, landmarks) list handed back to the driver    *)
(*   stale    the slots in rois_needing_reseed: index, lost and bounds     *)
(*            after the tracking pass                                      *)
(*   healthy  healthy_boxes (in an iteration that ran the reseed step)     *)
(*   sole     the detector's person boxes in the reseed step, when there   *)
(*            was exactly one                                              *)
(*   reserved the person boxes that the reserved filter removed            *)
(*   offered  the number of person boxes the filter kept                   *)
(*   reseeds  the accepted pairs: slot, detection, Pose closed, Pose made  *)
(*   dropped  the ROIs the dedup pass marked for removal                   *)
(*   seed     what _seed_rois_if_needed was given and did, in an iteration *)
(*            that went on past it: whether the list was empty, the number *)
(*            of detector calls, the detector's output, the list returned  *)
(*            by a call that ran the detector, the first unused Pose name  *)
(*            and whether the list returned is the list passed, unchanged  *)
(*   track    for every ROI of the list at the start of the frame, in list *)
(*            order: the ROI object, what its estimator returned, its lost *)
(*            after the tracking pass, and the number of consecutive       *)
(*            frames, ending with this one, in which its estimator         *)
(*            returned nothing since its last hit, seed or reseed          *)
(*   raised   the Pose objects whose close() raised in this iteration, or  *)
(*            in the teardown                                              *)
(*   calls    the number of detector calls of _process_multiperson_frame   *)
(*   effects  for every reseeded slot: the ROI as it was before the reseed  *)
(*            step, as it is after the step, and its index after the step  *)
(*   late     the pairs (list indices from 1) the dedup pass compared      *)
(*            although the first of them was already marked for removal    *)
(*   reclosed the Pose objects on which close() was called in this         *)
(*            iteration, or in the teardown, after an earlier close()      *)
(***************************************************************************)
NoSeed ==
    [called |-> FALSE, empty |-> FALSE, calls |-> 0, dets |-> <<>>, rois |-> <<>>,
     first |-> 0, same |-> TRUE]

NoObs ==
    [kind |-> "none", fault |-> "none", outputs |-> <<>>, stale |-> {}, healthy |-> {},
     sole |-> <<>>, reserved |-> {}, offered |-> 0, reseeds |-> {}, dropped |-> {},
     seed |-> NoSeed, track |-> <<>>, raised |-> {}, late |-> {}, reclosed |-> {},
     effects |-> {}, calls |-> 0]

UidPairs == {p \in (1..MaxDet) \X (1..MaxDet) : p[1] < p[2]}

\* runs.decoded is the number of frames cap.read() has returned so far
NoRuns ==
    [pair |-> 0, hit |-> 0, pose |-> 0, ov |-> [p \in UidPairs |-> 0],
     miss |-> [u \in 1..MaxDet |-> 0], decoded |-> 0]

NoProbe == [box |-> <<0, 0, 0, 0>>, w |-> 0, h |-> 0, out |-> <<>>]

\* the slots of rois_needing_reseed as observed
Stale(tracked, need) ==
    {[slot |-> need[k], uid |-> tracked[need[k]].uid, lost |-> tracked[need[k]].lost,
      box |-> Box(tracked[need[k]])] : k \in 1..Len(need)}

\* the reseed step as observed on the reseeded slots: tracked is the list before
\* the step, mid the list after it
ReseedEffects(tracked, mid, reseeds) ==
    {[slot |-> s.slot, before |-> tracked[s.slot], at |-> i, after |-> mid[i]] :
        <<s, i>> \in {p \in reseeds \X (1..Len(mid)) : mid[p[2]].uid = tracked[p[1].slot].uid}}

\* the ROIs marked for removal as observed
Dropped(mid, rm) ==
    {[slot |-> i, lost |-> mid[i].lost, uid |-> mid[i].uid, pose |-> mid[i].pose] : i \in rm}

\* length of the run of frames, ending with this one, in which the list held
\* exactly two ROIs overlapping above the dedup threshold at the dedup pass,
\* the run having started with both overlap_streak at 0
PairRun(mid) ==
    IF Len(mid) = 2 /\ IoUAbove(Box(mid[1]), Box(mid[2]), DedupNum, DedupDen)
    THEN IF runs.pair \in 1..(StreakLimit - 1) THEN runs.pair + 1
         ELSE IF mid[1].overlap_streak = 0 /\ mid[2].overlap_streak = 0 THEN 1 ELSE 0
    ELSE 0

\* for every two ROI objects, the length (up to StreakLimit) of the run of
\* frames, ending with this one, in which both were in the list at the dedup
\* pass with boxes overlapping above the dedup threshold
OverlapRuns(mid) ==
    [p \in UidPairs |->
        IF \E i \in 1..Len(mid), j \in 1..Len(mid) :
              /\ mid[i].uid = p[1] /\ mid[j].uid = p[2]
              /\ IoUAbove(Box(mid[i]), Box(mid[j]), DedupNum, DedupDen)
        THEN Min(runs.ov[p] + 1, StreakLimit)
        ELSE 0]

\* length of the run of frames, ending with this one, in which the list held
\* one ROI and its estimator hit; pose is that ROI's estimator when the run began
HitRun(start, res) ==
    IF Len(start) = 1 /\ res[1] = "hit"
    THEN [hit |-> runs.hit + 1, pose |-> IF runs.hit = 0 THEN start[1].pose ELSE runs.pose]
    ELSE [hit |-> 0, pose |-> 0]

\* for every ROI object, the number of consecutive frames, ending with this
\* one, in which its estimator returned nothing; reset holds the slots whose
\* ROI was reseeded or marked for removal in this frame
MissRuns(start, res, reset) ==
    [u \in 1..MaxDet |->
        IF \E i \in 1..Len(start) : start[i].uid = u /\ res[i] = "miss" /\ i \notin reset
        THEN runs.miss[u] + 1
        ELSE 0]

Runs(start, res, mid, reset) ==
    [pair |-> PairRun(mid), hit |-> HitRun(start, res).hit,
     pose |-> HitRun(start, res).pose, ov |-> OverlapRuns(mid),
     miss |-> MissRuns(start, res, reset), decoded |-> runs.decoded + 1]

\* the tracking pass as observed
Track(start, res, tracked) ==
    [i \in 1..Len(start) |->
        [uid |-> start[i].uid, res |-> res[i], lost |-> tracked[i].lost,
         misses |-> IF res[i] = "hit" THEN 0 ELSE runs.miss[start[i].uid] + 1]]

(***************************************************************************)
(* The frame loop of extract_pose_features (lines 331-382).  One action is *)
(* one iteration.  The loop of embed_pose_video (lines 441-510) makes the  *)
(* same calls on the tracker and differs only in what it does with the     *)
(* outputs (it draws them and writes the frame).                           *)
(***************************************************************************)
\* keypoints_by_person = {} (line 312): no person_id has a row
NoRows == [p \in 0..(MaxDet - 1) |-> <<>>]

\* row = [frame_idx, person_id] (lines 355 and 366); the landmark columns that
\* follow are left out
RowOf(fidx, person_id) == [frame |-> fidx, person_id |-> person_id]

\* the driver's loop over the outputs of one frame (lines 354-360, and 365-369
\* in single-person mode): one row per output, appended under its person_id
AppendRows(rows, outputs, fidx) ==
    [p \in DOMAIN rows |->
        rows[p] \o SelectSeq([k \in 1..Len(outputs) |-> RowOf(fidx, outputs[k].person_id)],
                             LAMBDA r : r.person_id = p)]

Init ==
    /\ mode \in BOOLEAN
    /\ pc = "loop"
    /\ frame_idx = 0
    /\ keypoints_by_person = NoRows
    /\ locked_rois = <<>>
    /\ nextPose = 1
    /\ released = {}
    /\ yolo = FALSE
    /\ last = NoObs
    /\ runs = NoRuns
    /\ probe = NoProbe

\* cap.read() returned a frame; the video's length is bounded
Decoding ==
    /\ pc = "loop"
    /\ frame_idx < (IF Len(locked_rois) >= 2 THEN MaxCrowdFrames ELSE MaxFrames)

\* the number of calls of self.yolo.predict in _seed_rois_if_needed: the
\* detector runs whatever the list holds
SeedCallsAlways(rois) == 1

\* the number of calls of self.yolo.predict in _seed_rois_if_needed (lines 64-65)
SeedCalls(rois) == IF rois = <<>> THEN 1 ELSE 0

\* _seed_rois_if_needed (lines 64-72) given what the detector returns: the new
\* ROIs are appended to the list passed
SeedRoisIfNeeded(rois, dets) ==
    IF SeedCalls(rois) = 1
    THEN rois \o SeedRois(PersonBoxes(dets), FrameW, FrameH, nextPose)
    ELSE rois

\* what the detector returns to _seed_rois_if_needed, when it is called, in a
\* scene where its outputs are outs
SeedInputsOf(outs) == IF SeedCalls(locked_rois) = 1 THEN outs ELSE {<<>>}

\* what the detector returns to _seed_rois_if_needed, when it is called
SeedInputs == SeedInputsOf(DetectorOutputs)

\* _seed_rois_if_needed as observed
SeedObs(rois, dets, start) ==
    [called |-> TRUE, empty |-> rois = <<>>, calls |-> SeedCalls(rois), dets |-> dets,
     rois |-> IF SeedCalls(rois) = 1 THEN start ELSE <<>>,
     first |-> nextPose, same |-> start = rois]

\* the Pose objects constructed by the seeding of this iteration
SeedPoses(start) == Len(start) - Len(locked_rois)

\* a single-person branch that first makes sure the detector is loaded
FrameSingleLoadsDetector ==
    /\ Decoding /\ ~mode
    /\ \E hit \in BOOLEAN :
       \E outputs \in {IF hit THEN <<[person_id |-> 0, uid |-> 0]>> ELSE <<>>} :
         /\ last' = [NoObs EXCEPT !.kind = "single", !.outputs = outputs]
         /\ keypoints_by_person' = AppendRows(keypoints_by_person, outputs, frame_idx)
    /\ runs' = [runs EXCEPT !.decoded = @ + 1]
    /\ yolo' = TRUE
    /\ frame_idx' = frame_idx + 1
    /\ UNCHANGED <<mode, pc, locked_rois, nextPose, released, probe>>

\* single-person branch (lines 363-370): one global estimator, person_id 0
FrameSingle ==
    /\ Decoding /\ ~mode
    /\ \E hit \in BOOLEAN :
       \E outputs \in {IF hit THEN <<[person_id |-> 0, uid |-> 0]>> ELSE <<>>} :
         /\ last' = [NoObs EXCEPT !.kind = "single", !.outputs = outputs]
         /\ keypoints_by_person' = AppendRows(keypoints_by_person, outputs, frame_idx)
    /\ runs' = [runs EXCEPT !.decoded = @ + 1]
    /\ frame_idx' = frame_idx + 1
    /\ UNCHANGED <<mode, pc, locked_rois, nextPose, released, yolo, probe>>

\* a skip branch that goes to the next frame without counting this one
FrameSkipKeepsIndex ==
    /\ Decoding /\ mode
    /\ \E sd \in SeedInputs :
         /\ SeedRoisIfNeeded(locked_rois, sd) = <<>>
         /\ last' = [NoObs EXCEPT !.kind = "skip", !.seed = SeedObs(locked_rois, sd, <<>>)]
    /\ yolo' = TRUE
    /\ runs' = [runs EXCEPT !.decoded = @ + 1]
    /\ UNCHANGED <<mode, pc, frame_idx, keypoints_by_person, locked_rois, nextPose, released,
                   probe>>

\* multi-person branch, no ROI after seeding: the frame is skipped (lines 346-351)
FrameSkip ==
    /\ Decoding /\ mode
    /\ \E sd \in SeedInputs :
         /\ SeedRoisIfNeeded(locked_rois, sd) = <<>>
         /\ last' = [NoObs EXCEPT !.kind = "skip", !.seed = SeedObs(locked_rois, sd, <<>>)]
    /\ yolo' = TRUE
    /\ frame_idx' = frame_idx + 1
    /\ runs' = [runs EXCEPT !.decoded = @ + 1]
    /\ UNCHANGED <<mode, pc, keypoints_by_person, locked_rois, nextPose, released, probe>>

\* multi-person branch: seeding, then _process_multiperson_frame (lines 74-217),
\* in a scene where the detector returns one of outs to the seeding and gives
\* one of the person_boxes lists boxLists in the reseed step
FrameMultiOn(outs, boxLists) ==
    /\ Decoding /\ mode
    /\ \E sd \in SeedInputsOf(outs) :
       \E start \in {SeedRoisIfNeeded(locked_rois, sd)} :
         /\ start # <<>>
         /\ \E res \in [1..Len(start) -> {"hit", "miss"}] :
            \E tracked \in {TrackPass(start, res, Len(start))} :
            \E need \in {NeedReseed(tracked, res)} :
            \E healthy \in {HealthyBoxes(tracked)} :
            \E rows \in {[k \in 1..Len(need) |-> Box(tracked[need[k]])]} :
            \E pb \in (IF ReseedCalls(need) >= 1 THEN boxLists ELSE {<<>>}) :
            \E boxes \in {FilterReserved(pb, healthy)} :
            \E m \in (IF need # <<>> /\ boxes # <<>>
                      THEN Assignments(rows, boxes, FrameW, FrameH) ELSE {{}}) :
            \E reseeds \in {Reseeds(Accepted(m, rows, boxes, healthy, FrameW, FrameH),
                                    need, boxes, tracked, nextPose + SeedPoses(start))} :
            \E mid \in {ReseedStep(tracked, reseeds, FrameW, FrameH)} :
            \E dd \in {DedupPass(mid)} :
            \E cr \in SUBSET ({s.old : s \in reseeds} \cup Range(dd.closed)) :
              /\ locked_rois' = Compact(dd.rois, dd.rm)
              /\ nextPose' = nextPose + SeedPoses(start) + Cardinality(reseeds)
              /\ released' = released \cup {s.old : s \in reseeds} \cup Range(dd.closed)
              /\ runs' = Runs(start, res, mid, {s.slot : s \in reseeds} \cup dd.rm)
              /\ keypoints_by_person' =
                     AppendRows(keypoints_by_person, Outputs(start, res), frame_idx)
              /\ last' = [kind |-> "multi", fault |-> "none",
                          outputs |-> Outputs(start, res),
                          stale |-> Stale(tracked, need),
                          healthy |-> IF need # <<>> THEN healthy ELSE {},
                          sole |-> IF Len(pb) = 1 THEN pb ELSE <<>>,
                          reserved |-> Range(pb) \ Range(boxes),
                          offered |-> Len(boxes),
                          reseeds |-> reseeds,
                          dropped |-> Dropped(mid, dd.rm),
                          seed |-> SeedObs(locked_rois, sd, start),
                          track |-> Track(start, res, tracked),
                          raised |-> cr,
                          late |-> dd.late,
                          effects |-> ReseedEffects(tracked, mid, reseeds),
                          calls |-> ReseedCalls(need),
                          reclosed |-> ({s.old : s \in reseeds} \cap released) \cup
                                       ClosedAgain(released \cup {s.old : s \in reseeds},
                                                   dd.closed)]
    /\ yolo' = TRUE
    /\ frame_idx' = frame_idx + 1
    /\ UNCHANGED <<mode, pc, probe>>

\* multi-person branch in the scene of Catalogue
FrameMulti == FrameMultiOn(DetectorOutputs, PersonBoxLists)

\* _ensure_yolo raises RuntimeError (lines 303-306); nothing catches it
YoloLoadRaises ==
    /\ Decoding /\ mode /\ ~yolo
    /\ pc' = "raised"
    /\ last' = [NoObs EXCEPT !.kind = "raise", !.fault = "yolo"]
    /\ runs' = [runs EXCEPT !.decoded = @ + 1]
    /\ UNCHANGED <<mode, frame_idx, keypoints_by_person, locked_rois, nextPose, released,
                   yolo, probe>>

\* self.yolo.predict raises in _seed_rois_if_needed (line 65); nothing catches it
DetectorRaisesAtSeed ==
    /\ Decoding /\ mode /\ locked_rois = <<>>
    /\ pc' = "raised"
    /\ yolo' = TRUE
    /\ last' = [NoObs EXCEPT !.kind = "raise", !.fault = "detector"]
    /\ runs' = [runs EXCEPT !.decoded = @ + 1]
    /\ UNCHANGED <<mode, frame_idx, keypoints_by_person, locked_rois, nextPose, released, probe>>

\* roi["pose"].process raises for ROI k (line 89); nothing catches it.  The ROIs
\* before k have been updated in place, in the list the driver holds.
EstimatorRaises ==
    /\ Decoding /\ mode
    /\ \E sd \in SeedInputs :
         LET start == SeedRoisIfNeeded(locked_rois, sd)
         IN /\ start # <<>>
            /\ \E k \in 1..Len(start) :
               \E res \in [1..(k - 1) -> {"hit", "miss"}] :
                 /\ locked_rois' = TrackPass(start, res, k - 1)
                 /\ nextPose' = nextPose + SeedPoses(start)
    /\ last' = [NoObs EXCEPT !.kind = "raise", !.fault = "estimator"]
    /\ pc' = "raised"
    /\ yolo' = TRUE
    /\ runs' = [runs EXCEPT !.decoded = @ + 1]
    /\ UNCHANGED <<mode, frame_idx, keypoints_by_person, released, probe>>

\* self.yolo.predict raises in the reseed step (line 108); nothing catches it
DetectorRaisesAtReseed ==
    /\ Decoding /\ mode
    /\ \E sd \in SeedInputs :
         LET start == SeedRoisIfNeeded(locked_rois, sd)
         IN /\ start # <<>>
            /\ \E res \in [1..Len(start) -> {"hit", "miss"}] :
                 LET tracked == TrackPass(start, res, Len(start))
                 IN /\ NeedReseed(tracked, res) # <<>>
                    /\ locked_rois' = tracked
                    /\ nextPose' = nextPose + SeedPoses(start)
                    /\ last' = [NoObs EXCEPT !.kind = "raise", !.fault = "detector",
                                             !.stale = Stale(tracked, NeedReseed(tracked, res))]
    /\ pc' = "raised"
    /\ yolo' = TRUE
    /\ runs' = [runs EXCEPT !.decoded = @ + 1]
    /\ UNCHANGED <<mode, frame_idx, keypoints_by_person, released, probe>>

\* the driver's own calls raise: cap.read, before a frame is decoded, or
\* the status callback and cv2.cvtColor, after it (lines 332-339)
DriverRaises ==
    /\ Decoding
    /\ pc' = "raised"
    /\ last' = [NoObs EXCEPT !.kind = "raise", !.fault = "driver"]
    /\ \E d \in 0..1 : runs' = [runs EXCEPT !.decoded = @ + d]
    /\ UNCHANGED <<mode, frame_idx, keypoints_by_person, locked_rois, nextPose, released,
                   yolo, probe>>

\* _cleanup_locked_rois (lines 219-227): the Pose objects on which it calls
\* close().  The one try encloses the whole loop: when the close() of the ROI
\* at index raisesAt raises, the loop is left and the ROIs after it are not
\* reached; raisesAt = 0 when no close() raises.
CleanupLockedRois(rois, raisesAt) ==
    IF raisesAt = 0 THEN Poses(rois) ELSE {rois[i].pose : i \in 1..raisesAt}

\* cap.read() returns ret = False: break, then teardown (lines 333-334, 379-382)
EndOfStream ==
    /\ pc = "loop"
    /\ pc' = "done"
    /\ \E k \in 0..Len(locked_rois) :
         /\ released' = released \cup CleanupLockedRois(locked_rois, k)
         /\ last' = [NoObs EXCEPT !.kind = "end",
                                  !.raised = IF k = 0 THEN {} ELSE {locked_rois[k].pose},
                                  !.reclosed = CleanupLockedRois(locked_rois, k) \cap released]
    /\ UNCHANGED <<mode, frame_idx, keypoints_by_person, locked_rois, nextPose, yolo, runs,
                   probe>>

Next ==
    \/ FrameSingle
    \/ FrameSkip
    \/ FrameMulti
    \/ YoloLoadRaises
    \/ DetectorRaisesAtSeed
    \/ EstimatorRaises
    \/ DetectorRaisesAtReseed
    \/ DriverRaises
    \/ EndOfStream

Spec == Init /\ [][Next]_vars

(***************************************************************************)
(* The crowd specification: the same frame loop in a scene where people    *)
(* stand close together.  The detector returns two or three of the boxes   *)
(* of CrowdCatalogue to the seeding, in catalogue order, and finds nobody  *)
(* in the reseed step.  The boxes seed the ROIs (0,0,4,3), (0,0,4,3),      *)
(* (1,0,4,3) and (0,0,4,2): the first three overlap one another above the  *)
(* dedup threshold, the last overlaps only the first two.                  *)
(***************************************************************************)
CrowdCatalogue ==
    << [box |-> <<0, 0, 4, 3>>, cls |-> 0],
       [box |-> <<1, 1, 4, 3>>, cls |-> 0],
       [box |-> <<2, 0, 4, 3>>, cls |-> 0],
       [box |-> <<0, 0, 4, 2>>, cls |-> 0] >>

RECURSIVE CrowdPick(_, _)
\* the crowd catalogue entries whose index is in s, in catalogue order, from index k on
CrowdPick(s, k) ==
    IF k > Len(CrowdCatalogue) THEN <<>>
    ELSE IF k \in s THEN <<CrowdCatalogue[k]>> \o CrowdPick(s, k + 1)
         ELSE CrowdPick(s, k + 1)

\* results.xyxy[0] of self.yolo.predict in the crowd scene
CrowdOutputs ==
    {CrowdPick(s, 1) : s \in {t \in SUBSET (1..Len(CrowdCatalogue)) :
                                  Cardinality(t) >= 2 /\ Cardinality(t) <= MaxDet}}

CrowdInit == Init /\ mode

\* multi-person branch in the crowd scene
CrowdFrame == FrameMultiOn(CrowdOutputs, {<<>>})

CrowdNext ==
    \/ CrowdFrame
    \/ EndOfStream

SpecCrowd == CrowdInit /\ [][CrowdNext]_vars

(***************************************************************************)
(* The neighbour specification: the same frame loop in a scene with two    *)
(* people side by side at the frame's edge.  The seeding is given one or   *)
(* both boxes of NeighbourCatalogue, seeded as the ROIs (0,0,1,2) and      *)
(* (0,1,1,3); in the reseed step the detector returns any of the lists of  *)
(* NeighbourBoxLists, among them a box that spans both people's places.    *)
(***************************************************************************)
NeighbourCatalogue ==
    << [box |-> <<0, 0, 1, 2>>, cls |-> 0],
       [box |-> <<0, 2, 1, 3>>, cls |-> 0] >>

\* results.xyxy[0] of self.yolo.predict at the seeding in the neighbour scene
NeighbourOutputs ==
    { <<NeighbourCatalogue[1]>>, <<NeighbourCatalogue[2]>>, NeighbourCatalogue }

\* person_boxes of the reseed step in the neighbour scene
NeighbourBoxLists == { <<>>, << <<0, 1, 2, 3>> >>, << <<0, 2, 1, 3>> >> }

NeighbourInit == Init /\ mode

\* multi-person branch in the neighbour scene
NeighbourFrame == FrameMultiOn(NeighbourOutputs, NeighbourBoxLists)

NeighbourNext ==
    \/ NeighbourFrame
    \/ EndOfStream

SpecNeighbour == NeighbourInit /\ [][NeighbourNext]_vars

(***************************************************************************)
(* The audio batches of src/audio.py: extract_audio_features_batch (lines  *)
(* 137-164) and extract_transcripts_batch (lines 494-520).  pc is "batch"  *)
(* while the for loop runs, "returned" when the call has returned and      *)
(* "raised" when an exception has left it.  probe holds the call:          *)
(*   batch        which of the two batch methods was called                *)
(*   audio_files  the list passed                                          *)
(*   folder       whether the output folder of the batch is configured     *)
(*   callback     whether a status_callback was given                      *)
(*   i            the number of iterations of the for loop completed       *)
(*   status       the files announced through set_status_message, in order *)
(*   attempted    the files handed to the per-file method, in call order   *)
(*   outcome      what each of those calls did: "saved" or "error"         *)
(*   whisper      "none": whisper_model is None; "partial": whisper_model  *)
(*                is set and whisper_pipe is None; "ready": both are set   *)
(***************************************************************************)
FileNames == {"a.wav", "b.wav"}

RECURSIVE FileLists(_)
\* the lists of up to n file names, repeated names included
FileLists(n) ==
    IF n = 0 THEN {<<>>}
    ELSE FileLists(n - 1) \cup
         {Append(l, f) : l \in {x \in FileLists(n - 1) : Len(x) = n - 1}, f \in FileNames}

\* extract_audio_features (lines 71-135): ValueError when the folder is not
\* configured, else the file is saved unless a step of the extraction raises
\* (raises holds whether one does); every exception leaves as an Exception
ExtractAudioFeatures(folder, raises) ==
    IF ~folder \/ raises THEN "error" ELSE "saved"

\* _load_whisper_model (lines 173-222): nothing to do when whisper_model is
\* set; else the model, then the processor and the pipeline are loaded, and a
\* failure after the first assignment leaves whisper_pipe None.  load is how
\* far this loading gets.
LoadWhisperModel(whisper, load) == IF whisper = "none" THEN load ELSE whisper

\* extract_transcript (lines 263-327): ValueError when the folder is not
\* configured; the loading of the model raises when it stops short; calling
\* whisper_pipe raises when it is None; a diarization failure is caught inside
\* (lines 286-295); every exception leaves as an Exception
ExtractTranscript(folder, whisper, load, raises) ==
    IF ~folder THEN [out |-> "error", whisper |-> whisper]
    ELSE IF LoadWhisperModel(whisper, load) # "ready"
         THEN [out |-> "error", whisper |-> LoadWhisperModel(whisper, load)]
         ELSE [out |-> IF raises THEN "error" ELSE "saved", whisper |-> "ready"]

\* a mutant of FeaturesHandler: no handler, the exception leaves the batch
FeaturesHandlerMissing(out) == IF out = "error" THEN "raised" ELSE "batch"

\* the try/except of extract_audio_features_batch (lines 160-164): an Exception
\* of the per-file call is printed and the loop goes on
FeaturesHandler(out) == "batch"

\* the try/except of extract_transcripts_batch (lines 516-520)
TranscriptsHandler(out) == "batch"

\* set_status_message (lines 55-58), called with the file's name
SetStatusMessage(status, callback, file) == IF callback THEN Append(status, file) ELSE status

BatchInit ==
    /\ mode = TRUE /\ pc = "batch" /\ frame_idx = 0 /\ keypoints_by_person = NoRows
    /\ locked_rois = <<>> /\ nextPose = 1 /\ released = {} /\ yolo = FALSE
    /\ last = NoObs /\ runs = NoRuns
    /\ \E batch \in {"features", "transcripts"}, files \in FileLists(MaxFiles) :
       \E folder \in BOOLEAN, callback \in BOOLEAN :
          probe = [batch |-> batch, audio_files |-> files, folder |-> folder,
                   callback |-> callback, i |-> 0, status |-> <<>>, attempted |-> <<>>,
                   outcome |-> <<>>, whisper |-> "none"]

\* one iteration of the for loop of extract_audio_features_batch (lines 146-164)
FeaturesBatchFile ==
    /\ pc = "batch" /\ probe.batch = "features"
    /\ probe.i < Len(probe.audio_files)
    /\ \E raises \in BOOLEAN :
       \E file \in {probe.audio_files[probe.i + 1]} :
       \E out \in {ExtractAudioFeatures(probe.folder, raises)} :
         /\ probe' = [probe EXCEPT !.status = SetStatusMessage(@, probe.callback, file),
                                   !.attempted = Append(@, file),
                                   !.outcome = Append(@, out),
                                   !.i = @ + 1]
         /\ pc' = FeaturesHandler(out)
    /\ UNCHANGED <<mode, frame_idx, keypoints_by_person, locked_rois, nextPose, released,
                   yolo, last, runs>>

\* one iteration of the for loop of extract_transcripts_batch (lines 503-520)
TranscriptsBatchFile ==
    /\ pc = "batch" /\ probe.batch = "transcripts"
    /\ probe.i < Len(probe.audio_files)
    /\ \E raises \in BOOLEAN, load \in {"none", "partial", "ready"} :
       \E file \in {probe.audio_files[probe.i + 1]} :
       \E res \in {ExtractTranscript(probe.folder, probe.whisper, load, raises)} :
         /\ probe' = [probe EXCEPT !.status = SetStatusMessage(@, probe.callback, file),
                                   !.attempted = Append(@, file),
                                   !.outcome = Append(@, res.out),
                                   !.whisper = res.whisper,
                                   !.i = @ + 1]
         /\ pc' = TranscriptsHandler(res.out)
    /\ UNCHANGED <<mode, frame_idx, keypoints_by_person, locked_rois, nextPose, released,
                   yolo, last, runs>>

\* the for loop is exhausted: the batch method returns (None)
BatchReturns ==
    /\ pc = "batch"
    /\ probe.i = Len(probe.audio_files)
    /\ pc' = "returned"
    /\ UNCHANGED <<mode, frame_idx, keypoints_by_person, locked_rois, nextPose, released,
                   yolo, last, runs, probe>>

BatchNext ==
    \/ FeaturesBatchFile
    \/ TranscriptsBatchFile
    \/ BatchReturns

SpecBatch == BatchInit /\ [][BatchNext]_vars

(***************************************************************************)
(* The geometry specification: _expand_and_clip_bbox applied to every      *)
(* integer box around a frame, for every small frame size.                 *)
(***************************************************************************)
GeomCoords == (0 - GeomPad)..(GeomMaxSide + GeomPad)

GeomInit ==
    /\ mode = TRUE /\ pc = "geom" /\ frame_idx = 0 /\ keypoints_by_person = NoRows
    /\ locked_rois = <<>> /\ nextPose = 1 /\ released = {} /\ yolo = FALSE
    /\ last = NoObs /\ runs = NoRuns
    /\ \E x1 \in GeomCoords, y1 \in GeomCoords, x2 \in GeomCoords, y2 \in GeomCoords :
       \E w \in 1..GeomMaxSide, h \in 1..GeomMaxSide :
          probe = [box |-> <<x1, y1, x2, y2>>, w |-> w, h |-> h, out |-> <<>>]

GeomApply ==
    /\ probe.out = <<>>
    /\ probe' = [probe EXCEPT !.out = ExpandAndClip(probe.box, probe.w, probe.h)]
    /\ UNCHANGED <<mode, pc, frame_idx, keypoints_by_person, locked_rois, nextPose, released,
                 yolo, last, runs>>

GeomNext == GeomApply

SpecGeom == GeomInit /\ [][GeomNext]_vars

(***************************************************************************)
(* The assignment specification: linear_sum_assignment applied to every    *)
(* small cost matrix of up to AssignMaxSide rows and columns.              *)
(***************************************************************************)
AssignInit ==
    /\ mode = TRUE /\ pc = "assign" /\ frame_idx = 0 /\ keypoints_by_person = NoRows
    /\ locked_rois = <<>> /\ nextPose = 1 /\ released = {} /\ yolo = FALSE
    /\ last = NoObs /\ runs = NoRuns
    /\ \E nr \in 1..AssignMaxSide, nc \in 1..AssignMaxSide :
       \E cost \in [(1..nr) \X (1..nc) -> 0..AssignMaxCost] :
          probe = [nr |-> nr, nc |-> nc, cost |-> cost, done |-> FALSE, out |-> {}]

AssignApply ==
    /\ ~probe.done
    /\ \E m \in LinearSumAssignment(probe.cost, probe.nr, probe.nc, 0) :
          probe' = [probe EXCEPT !.done = TRUE, !.out = m]
    /\ UNCHANGED <<mode, pc, frame_idx, keypoints_by_person, locked_rois, nextPose, released,
                 yolo, last, runs>>

AssignNext == AssignApply

SpecAssign == AssignInit /\ [][AssignNext]_vars

(***************************************************************************)
(* The overlap specification: _iou applied, both ways round, to every two  *)
(* boxes with coordinates up to IoUMaxCoord, zero-area and inverted boxes  *)
(* included.                                                               *)
(***************************************************************************)
IoUCoords == 0..IoUMaxCoord

IoUBoxes == IoUCoords \X IoUCoords \X IoUCoords \X IoUCoords

IoUInit ==
    /\ mode = TRUE /\ pc = "iou" /\ frame_idx = 0 /\ keypoints_by_person = NoRows
    /\ locked_rois = <<>> /\ nextPose = 1 /\ released = {} /\ yolo = FALSE
    /\ last = NoObs /\ runs = NoRuns
    /\ \E a \in IoUBoxes, b \in IoUBoxes :
          probe = [a |-> a, b |-> b, done |-> FALSE, out |-> <<0, 1>>, rev |-> <<0, 1>>]

IoUApply ==
    /\ ~probe.done
    /\ probe' = [probe EXCEPT !.done = TRUE,
                              !.out = IoU(probe.a, probe.b),
                              !.rev = IoU(probe.b, probe.a)]
    /\ UNCHANGED <<mode, pc, frame_idx, keypoints_by_person, locked_rois, nextPose, released,
                 yolo, last, runs>>

IoUNext == IoUApply

SpecIoU == IoUInit /\ [][IoUNext]_vars

(***************************************************************************)
(* Properties.                                                             *)
(***************************************************************************)

\* the ROI object uid as it stands after the frame: in the list, or among the
\* ROIs the dedup pass removed
LostAfter(uid) ==
    {locked_rois[i].lost : i \in {j \in 1..Len(locked_rois) : locked_rois[j].uid = uid}}
    \cup {d.lost : d \in {e \in last.dropped : e.uid = uid}}

\* the detection conflicts with no healthy ROI, raw or expanded, and lies near
\* the ROI: it passes the gate on the blended cost
Eligible(roiBox, detBox, healthy) ==
    /\ ~Conflicts(detBox, healthy)
    /\ ~Conflicts(ExpandAndClip(detBox, FrameW, FrameH), healthy)
    /\ GatePasses(roiBox, detBox, FrameW, FrameH)

\* C1: the box returned by _expand_and_clip_bbox satisfies 0 <= x1 < x2 <= frame_w
\* and 0 <= y1 < y2 <= frame_h, for every integer box and every positive frame size
C1_ClippingInvariant ==
    probe.out # <<>> => ValidBox(probe.out, probe.w, probe.h)

\* C2: every ROI of the active list has x1 < x2, y1 < y2 and lies inside the frame
C2_RoiBoundsInvariant ==
    \A i \in 1..Len(locked_rois) : ValidBox(Box(locked_rois[i]), FrameW, FrameH)

\* C3: in a frame's reseed step, no slot is reseeded from a detection whose box has
\* IoU >= 0.5 with the box of a ROI that is healthy after the frame's tracking pass
C3_ReservationGuarantee ==
    \A s \in last.reseeds : \A hb \in last.healthy :
        ~IoUAtLeast(s.det, hb, ReservedNum, ReservedDen)

\* C3 happens: a frame in which the filter removed a reserved detection and a
\* stale slot was reseeded from another one
C3_ReservedFilteredWhileReseeding ==
    /\ last.kind = "multi"
    /\ last.reserved # {}
    /\ last.reseeds # {}

\* C4: a list of exactly two ROIs overlapping above 0.55 in 3 consecutive frames,
\* the streaks starting at 0, keeps both ROIs through the first two frames and
\* holds one ROI after the third; the survivor's lost is not larger than the
\* dropped ROI's, and on equal lost the first index is the one dropped
C4_TwoRoiDedup ==
    /\ (last.kind = "multi" /\ runs.pair \in 1..(StreakLimit - 1)) =>
          Len(locked_rois) = 2 /\ last.dropped = {}
    /\ (last.kind = "multi" /\ runs.pair = StreakLimit) =>
          /\ Len(locked_rois) = 1
          /\ Cardinality(last.dropped) = 1
          /\ \A d \in last.dropped :
                /\ locked_rois[1].lost <= d.lost
                /\ locked_rois[1].lost = d.lost => d.slot = 1
                /\ d.pose \in released

\* C4 happens: the third frame of such a run, the two ROIs having equal lost
C4_TieDropsFirstIndex ==
    /\ last.kind = "multi"
    /\ runs.pair = StreakLimit
    /\ \E d \in last.dropped : d.slot = 1 /\ d.lost = locked_rois[1].lost

\* every ROI of the list has a well-formed box
WellFormedList ==
    \A i \in 1..Len(locked_rois) : ValidBox(Box(locked_rois[i]), FrameW, FrameH)

\* C5: in a list of any size (of well-formed ROIs), two ROIs whose boxes overlap
\* above 0.55 in 3 consecutive frames are not both in the list after the third frame
C5_DedupAmongOthers ==
    \A p \in UidPairs :
        (last.kind = "multi" /\ WellFormedList /\ runs.ov[p] >= StreakLimit) =>
            ~(\E i \in 1..Len(locked_rois), j \in 1..Len(locked_rois) :
                locked_rois[i].uid = p[1] /\ locked_rois[j].uid = p[2])

\* C6: at every frame boundary inside the loop every ROI holds an estimator that has
\* not been released, no estimator is held by two ROIs, and every reseed of the
\* last frame released the slot's old estimator and installed a new one
C6_EstimatorOwnership ==
    pc = "loop" =>
        /\ \A i \in 1..Len(locked_rois) : locked_rois[i].pose \notin released
        /\ \A i \in 1..Len(locked_rois), j \in 1..Len(locked_rois) :
              locked_rois[i].pose = locked_rois[j].pose => i = j
        /\ \A s \in last.reseeds :
              /\ s.old \in released
              /\ s.new # s.old
              /\ \/ \E i \in 1..Len(locked_rois) :
                       locked_rois[i].pose = s.new /\ locked_rois[i].lost = 0
                 \/ \E d \in last.dropped : d.pose = s.new

\* C6 happens: a frame boundary after a reseed in a list of two or more ROIs
C6_ReseedAmongSeveral ==
    /\ pc = "loop"
    /\ last.reseeds # {}
    /\ Len(locked_rois) >= 2

\* C7: when the routine has stopped processing frames, by end of stream or by an
\* exception, every estimator held by a remaining ROI has been released
C7_TeardownOnEveryExit ==
    pc \in {"done", "raised"} => Poses(locked_rois) \subseteq released

\* C8: an exception of a ROI's estimator or of the detector does not leave the
\* per-frame step
C8_FailuresAbsorbed ==
    ~(pc = "raised" /\ last.fault \in {"estimator", "detector"})

\* C9 as stated: a slot whose lost reaches frame_threshold in a frame whose reseed
\* step has one person detection, eligible for the slot, is reseeded in that frame
\* and has lost 0 at its end; and no slot is reseeded before its lost has reached
\* frame_threshold
C9_ReseedTimingAsStated ==
    /\ \A s \in last.stale :
          ( /\ last.kind = "multi"
            /\ s.lost = FrameThreshold
            /\ last.sole # <<>>
            /\ Eligible(s.box, last.sole[1], last.healthy) )
          => /\ \E r \in last.reseeds : r.slot = s.slot
             /\ LostAfter(s.uid) = {0}
    /\ \A r \in last.reseeds :
          \E s \in last.stale : s.slot = r.slot /\ s.lost >= FrameThreshold

\* C9 amended: the same, for a slot that is the only one needing reseed in the frame
C9_ReseedTimingLoneStale ==
    /\ \A s \in last.stale :
          ( /\ last.kind = "multi"
            /\ last.stale = {s}
            /\ s.lost = FrameThreshold
            /\ last.sole # <<>>
            /\ Eligible(s.box, last.sole[1], last.healthy) )
          => /\ \E r \in last.reseeds : r.slot = s.slot /\ r.det = last.sole[1]
             /\ LostAfter(s.uid) = {0}
    /\ \A r \in last.reseeds :
          \E s \in last.stale : s.slot = r.slot /\ s.lost >= FrameThreshold

\* C9 happens: the only stale slot reached frame_threshold next to a healthy,
\* well-formed ROI, with one eligible detection, and was reseeded
C9_LoneStaleReseeded ==
    /\ last.kind = "multi"
    /\ last.sole # <<>>
    /\ last.healthy # {}
    /\ \A hb \in last.healthy : ValidBox(hb, FrameW, FrameH)
    /\ \E s \in last.stale :
          /\ last.stale = {s}
          /\ s.lost = FrameThreshold
          /\ Eligible(s.box, last.sole[1], last.healthy)
          /\ \E r \in last.reseeds : r.slot = s.slot

\* the person_id of every output of the last frame is the list index of the ROI
\* object it came from, when the frame's dedup pass dropped nothing
PersonIdIsIndex ==
    (last.kind = "multi" /\ last.dropped = {}) =>
        \A k \in 1..Len(last.outputs) :
            /\ last.outputs[k].person_id + 1 \in 1..Len(locked_rois)
            /\ locked_rois[last.outputs[k].person_id + 1].uid = last.outputs[k].uid

\* a lone ROI in a run of hits: lost 0, the estimator it had when the run began,
\* no reseed, reported as person_id 0
LoneRoiRun ==
    (last.kind = "multi" /\ runs.hit >= 1) =>
        /\ Len(locked_rois) = 1
        /\ locked_rois[1].lost = 0
        /\ locked_rois[1].pose = runs.pose
        /\ last.reseeds = {}
        /\ last.outputs = <<[person_id |-> 0, uid |-> locked_rois[1].uid]>>

\* a frame whose dedup pass drops nothing leaves every ROI object at its index
KeepsIndices ==
    (locked_rois # <<>> /\ last'.kind = "multi" /\ last'.dropped = {}) =>
        /\ Len(locked_rois') = Len(locked_rois)
        /\ \A i \in 1..Len(locked_rois) : locked_rois'[i].uid = locked_rois[i].uid

\* C10: over frames in which dedup drops no ROI every ROI keeps its list index and
\* is reported under that index as person_id, reseeded or not; a lone ROI that hits
\* in successive frames keeps lost 0, is never reseeded and is always person_id 0
C10_SlotIndexStability ==
    /\ [](PersonIdIsIndex /\ LoneRoiRun)
    /\ [][KeepsIndices]_vars

\* C10 happens: a lone ROI has hit in 5 successive frames
C10_LoneRoiFiveHits ==
    /\ last.kind = "multi"
    /\ runs.hit = 5
    /\ Len(locked_rois) = 1


\* C11: in a frame's reseed step no detection reseeds two slots, no slot is
\* reseeded twice, and the number of slots reseeded is at most the smaller of the
\* number of slots needing reseed and the number of unreserved detections
C11_AssignmentOneToOne ==
    /\ \A r1 \in last.reseeds, r2 \in last.reseeds :
          (r1.slot = r2.slot \/ r1.col = r2.col) => r1 = r2
    /\ \A r \in last.reseeds : r.col \in 1..last.offered
    /\ Cardinality(last.reseeds) <= Min(Cardinality(last.stale), last.offered)

\* C11 happens: two slots needed reseed, three detections were on offer, and two
\* slots were reseeded, from two detections
C11_TwoSlotsReseeded ==
    /\ last.kind = "multi"
    /\ Cardinality(last.stale) = 2
    /\ last.offered = 3
    /\ Cardinality(last.reseeds) = 2

\* the pairings of an nr x nc matrix that use no row and no column twice and
\* have min(nr, nc) entries
OneToOnePairings(nr, nc) ==
    {n \in SUBSET ((1..nr) \X (1..nc)) :
        /\ Cardinality(n) = Min(nr, nc)
        /\ \A p \in n, q \in n : (p[1] = q[1] \/ p[2] = q[2]) => p = q}

IsPerson(d) == d.cls = PersonClass
PeopleOf(dets) == SelectSeq(dets, IsPerson)

\* C13: when _seed_rois_if_needed is given an empty list the detector runs once
\* and the list returned holds one ROI per person-class detection and none for
\* any other, in the detector's order, each with lost 0, overlap_streak 0, an
\* estimator of its own that did not exist before, and the bounds
\* expand_and_clip gives the detection with margin 0.25
C13_SeedingBootstrap ==
    (last.seed.called /\ last.seed.empty) =>
        /\ last.seed.calls = 1
        /\ Len(last.seed.rois) = Len(PeopleOf(last.seed.dets))
        /\ \A k \in 1..Len(last.seed.rois) :
              /\ Box(last.seed.rois[k]) =
                    ExpandAndClip(PeopleOf(last.seed.dets)[k].box, FrameW, FrameH)
              /\ last.seed.rois[k].lost = 0
              /\ last.seed.rois[k].overlap_streak = 0
              /\ last.seed.rois[k].pose >= last.seed.first
              /\ \A j \in 1..Len(last.seed.rois) :
                    last.seed.rois[j].pose = last.seed.rois[k].pose => j = k

\* C13 happens: the detector returned two people and something that is not a
\* person, and two ROIs were seeded
C13_SeededTwoOfThree ==
    /\ last.seed.called /\ last.seed.empty
    /\ Len(last.seed.dets) = 3
    /\ \E k \in 1..3 : last.seed.dets[k].cls # PersonClass
    /\ Len(last.seed.rois) = 2

\* the ROI objects of a list
Uids(rois) == {rois[i].uid : i \in 1..Len(rois)}

\* _seed_rois_if_needed given a list that holds a ROI: no detector call, and the
\* list it returns is the list it was given, ROI by ROI
SeedingIsNoOp ==
    (last.seed.called /\ ~last.seed.empty) => (last.seed.calls = 0 /\ last.seed.same)

\* one step on a list that holds a ROI: the list gets no longer, holds no ROI
\* object it did not hold, and the only estimators constructed are those of
\* the reseeded slots
NoRoiSpawned ==
    locked_rois # <<>> =>
        /\ Len(locked_rois') <= Len(locked_rois)
        /\ Uids(locked_rois') \subseteq Uids(locked_rois)
        /\ nextPose' - nextPose = (IF last'.kind = "multi" THEN Cardinality(last'.reseeds) ELSE 0)

C15_LostCountSemantics ==
    last.kind = "multi" =>
        \A k \in 1..Len(last.track) :
            /\ last.track[k].lost = last.track[k].misses
            /\ last.track[k].res = "hit" => last.track[k].lost = 0

\* C15 happens: one ROI missed for the third frame in a row while another hit
C15_ThreeMissesBesideHit ==
    /\ last.kind = "multi"
    /\ \E k \in 1..Len(last.track) : last.track[k].res = "miss" /\ last.track[k].lost = 3
    /\ \E j \in 1..Len(last.track) : last.track[j].res = "hit"

\* C16: the list _process_multiperson_frame returns holds exactly one entry for
\* every ROI whose estimator returned landmarks in the frame and none for a ROI
\* that missed; its person_ids are distinct, and each is the index the ROI had
\* in the list at the start of the frame
C16_OutputsCompleteAndKeyed ==
    last.kind = "multi" =>
        /\ \A k \in 1..Len(last.track) :
              Cardinality({n \in 1..Len(last.outputs) :
                              last.outputs[n].uid = last.track[k].uid})
                 = (IF last.track[k].res = "hit" THEN 1 ELSE 0)
        /\ \A n \in 1..Len(last.outputs) :
              /\ last.outputs[n].person_id + 1 \in 1..Len(last.track)
              /\ last.track[last.outputs[n].person_id + 1].uid = last.outputs[n].uid
        /\ \A n \in 1..Len(last.outputs), o \in 1..Len(last.outputs) :
              last.outputs[n].person_id = last.outputs[o].person_id => n = o

\* C16 happens: of three ROIs the first missed and the other two hit
C16_MissThenTwoHits ==
    /\ last.kind = "multi"
    /\ Len(last.track) = 3
    /\ last.track[1].res = "miss"
    /\ last.track[2].res = "hit" /\ last.track[3].res = "hit"
    /\ Len(last.outputs) = 2

\* C17: while multi-person mode is disabled every emitted row has person_id 0,
\* the ROI list stays empty (nothing is seeded, reseeded or dropped, no ROI
\* estimator is constructed or released), and the detector is neither loaded
\* nor called
C17_SingleModeBypass ==
    ~mode =>
        /\ \A n \in 1..Len(last.outputs) : last.outputs[n].person_id = 0
        /\ Len(last.outputs) <= 1
        /\ locked_rois = <<>>
        /\ nextPose = 1 /\ released = {}
        /\ last.reseeds = {} /\ last.dropped = {} /\ last.stale = {}
        /\ ~yolo
        /\ ~last.seed.called /\ last.seed.calls = 0

\* C17 happens: the third frame of a single-mode run gave landmarks
C17_SingleModeThirdRow ==
    /\ ~mode
    /\ last.kind = "single"
    /\ frame_idx = 3
    /\ Len(last.outputs) = 1

\* the box has positive width and height
PositiveBox(a) == a[1] < a[3] /\ a[2] < a[4]

\* C18 as stated: iou(a, a) is 1.0 for every box a
C18_IoUSelfIsOneAsStated ==
    (probe.done /\ probe.a = probe.b) => probe.out[1] = probe.out[2]

\* C18: iou(a, a) is 1.0 for every box a of positive width and height, and 0.0
\* for a box whose width or height is zero or negative
C18_IoUSelfIsOne ==
    (probe.done /\ probe.a = probe.b) =>
        IF PositiveBox(probe.a) THEN probe.out[1] = probe.out[2] /\ probe.out[2] > 0
        ELSE probe.out[1] = 0

\* C18 happens: iou of a two-by-one box with itself was computed
C18_SelfOverlapComputed ==
    /\ probe.done
    /\ probe.a = <<0, 0, 2, 1>> /\ probe.b = probe.a

\* the point sets of the two boxes share no unit cell
CellIn(a, x, y) == a[1] <= x /\ x < a[3] /\ a[2] <= y /\ y < a[4]
Disjoint(a, b) == ~\E x \in IoUCoords, y \in IoUCoords : CellIn(a, x, y) /\ CellIn(b, x, y)

\* C19: iou(a, b) equals iou(b, a); it is 0.0 for two disjoint boxes; and when
\* the union area is 0 it is 0.0 and nothing is divided by zero
C19_IoUSymmetricAndGuarded ==
    probe.done =>
        /\ probe.out[1] * probe.rev[2] = probe.rev[1] * probe.out[2]
        /\ probe.out[2] > 0 /\ probe.rev[2] > 0
        /\ Disjoint(probe.a, probe.b) => probe.out[1] = 0
        /\ BoxArea(probe.a) + BoxArea(probe.b) - InterArea(probe.a, probe.b) = 0
              => probe.out[1] = 0

\* C19 happens: iou of two boxes that overlap in part, neither inside the other
C19_PartialOverlapComputed ==
    /\ probe.done
    /\ 0 < probe.out[1] /\ probe.out[1] < probe.out[2]
    /\ probe.out[1] < BoxArea(probe.a) /\ probe.out[1] < BoxArea(probe.b)

\* C20: a close() that raises in the reseed step, in the dedup pass or in the
\* teardown does not stop the frame loop, and after the teardown the estimator
\* of every other ROI left in the list has been released
C20_ReleaseFailuresIsolated ==
    /\ (last.kind = "multi" /\ last.raised # {}) => pc = "loop"
    /\ (pc = "done" /\ WellFormedList) =>
          \A i \in 1..Len(locked_rois) :
              locked_rois[i].pose \notin last.raised => locked_rois[i].pose \in released

\* ROI i of the list overlaps another ROI of the list above the dedup threshold
OverlapsAnother(rois, i) ==
    \E j \in 1..Len(rois) :
        j # i /\ IoUAbove(Box(rois[i]), Box(rois[j]), DedupNum, DedupDen)

\* the overlap_streak the ROI object had when the frame began; 0 for a ROI
\* seeded in the frame
StreakBefore(uid) ==
    IF \E i \in 1..Len(locked_rois) : locked_rois[i].uid = uid
    THEN locked_rois[CHOOSE i \in 1..Len(locked_rois) : locked_rois[i].uid = uid].overlap_streak
    ELSE 0

\* one frame that dropped no ROI, on well-formed ROIs: a ROI that overlaps
\* another above the threshold has its streak one higher than before, and a ROI
\* that overlaps none has streak 0
StreakCountsFrames ==
    ( /\ last'.kind = "multi" /\ last'.dropped = {}
      /\ \A i \in 1..Len(locked_rois') : ValidBox(Box(locked_rois'[i]), FrameW, FrameH) )
    => \A i \in 1..Len(locked_rois') :
          locked_rois'[i].overlap_streak =
             (IF OverlapsAnother(locked_rois', i)
              THEN StreakBefore(locked_rois'[i].uid) + 1 ELSE 0)

\* C21: at the end of every frame a ROI's overlap_streak is the number of
\* consecutive frames, ending with this one, in which its box overlapped
\* another ROI's box with IoU > 0.55: one more than before in a frame in which
\* it overlaps some ROI (however many), and 0 in a frame in which it overlaps none
C21_OverlapStreakSemantics == [][StreakCountsFrames]_vars

\* C22: within one dedup pass a slot that has been marked for removal takes
\* part in no further pair comparison, so that it causes no further streak
\* increment or reset on another slot and no further drop decision
C22_MarkedSlotExcluded == last.late = {}

\* C23: close() is never called on an estimator on which it has been called
\* before, whatever the reseeds, dedup drops and teardown that happen
C23_ReleasedOnce == last.reclosed = {}

\* the centres of boxes a and b are no farther apart than GateNum/GateDen of
\* the diagonal of a w x h frame, in pixels
WithinGateDistance(a, b, w, h) ==
    CentreDistSq4(a, b) * GateDen * GateDen <= 4 * GateNum * GateNum * DiagSq(w, h)

\* C24: no slot is reseeded from a detection whose box centre is farther from
\* the centre of the slot's box than 8% of the image diagonal, in pixels
C24_DistanceGating ==
    last.kind = "multi" =>
        \A r \in last.reseeds : \A s \in last.stale :
            ( /\ s.slot = r.slot
              /\ ValidBox(s.box, FrameW, FrameH)
              /\ ValidBox(r.det, FrameW, FrameH) )
            => WithinGateDistance(s.box, r.det, FrameW, FrameH)

\* the list as the frame's tracking pass found it: the list seeded in this
\* frame, or the list the frame began with
ListAtStart == IF last'.seed.empty THEN last'.seed.rois ELSE locked_rois

\* the needing-reseed set of the last frame holds exactly the slots that missed
\* with lost at or above frame_threshold, and only such slots were reseeded
StaleIffMissedPastThreshold ==
    last.kind = "multi" =>
        /\ \A k \in 1..Len(last.track) :
              (last.track[k].res = "miss" /\ last.track[k].lost >= FrameThreshold)
                 <=> (\E s \in last.stale : s.slot = k /\ s.uid = last.track[k].uid)
        /\ \A r \in last.reseeds : \E s \in last.stale : s.slot = r.slot

\* one frame: a ROI that was not in the needing-reseed set and is still in the
\* list has the bounds and the estimator it had when the frame began
OthersUntouchedByReseed ==
    last'.kind = "multi" =>
        \A k \in 1..Len(last'.track) :
            (\A s \in last'.stale : s.slot # k) =>
                \A i \in 1..Len(locked_rois') :
                    locked_rois'[i].uid = last'.track[k].uid =>
                        /\ Box(locked_rois'[i]) = Box(ListAtStart[k])
                        /\ locked_rois'[i].pose = ListAtStart[k].pose

\* C25: a slot is in the needing-reseed set of a frame exactly when its
\* estimator missed in the frame and its lost after the increment is at least
\* frame_threshold; the reseed step leaves the bounds and the estimator of
\* every other slot as they were
C25_ReseedEligibility == []StaleIffMissedPastThreshold /\ [][OthersUntouchedByReseed]_vars

\* C25 happens: a frame in which one slot was reseeded, another missed with
\* lost still below frame_threshold and a third hit
C25_OneStaleOneMissOneHit ==
    /\ last.kind = "multi"
    /\ last.reseeds # {}
    /\ \E k \in 1..Len(last.track) :
          last.track[k].res = "miss" /\ last.track[k].lost < FrameThreshold
    /\ \E k \in 1..Len(last.track) : last.track[k].res = "hit"

\* C26: after the reseed step the bounds stored in a slot reseeded in the frame
\* have IoU < 0.5 with the bounds of every ROI that was healthy in the frame
C26_SecondConflictGuard ==
    last.kind = "multi" =>
        \A r \in last.reseeds : \A i \in 1..Len(locked_rois) :
            ( /\ locked_rois[i].pose = r.new
              /\ ValidBox(Box(locked_rois[i]), FrameW, FrameH) )
            => \A hb \in last.healthy :
                  ValidBox(hb, FrameW, FrameH)
                     => ~IoUAtLeast(Box(locked_rois[i]), hb, ReservedNum, ReservedDen)

\* C27: for every accepted pair the slot's old estimator has been released and
\* a new one, not released, is in its place; the slot's new bounds are, per
\* coordinate, the mean of the old bounds and of expand_and_clip(detection,
\* 0.25) truncated to an integer; lost is 0; overlap_streak and the slot's list
\* index are as before the reseed step
C27_AcceptedReseedEffect ==
    last.kind = "multi" =>
        \A r \in last.reseeds :
            \E x \in last.effects :
                /\ x.slot = r.slot /\ x.at = r.slot
                /\ x.before.pose = r.old /\ r.old \in released
                /\ x.after.pose = r.new /\ r.new # r.old /\ r.new \notin released
                /\ \A k \in 1..4 :
                      LET sum == Box(x.before)[k] + ExpandAndClip(r.det, FrameW, FrameH)[k]
                      IN 2 * Box(x.after)[k] <= sum /\ sum < 2 * Box(x.after)[k] + 2
                /\ x.after.lost = 0
                /\ x.after.overlap_streak = x.before.overlap_streak
                /\ x.after.uid = x.before.uid

\* C27 happens: a slot was reseeded to bounds that are neither its old bounds
\* nor the expanded detection
C27_SmoothedBetweenOldAndNew ==
    /\ last.kind = "multi"
    /\ \E r \in last.reseeds : \E x \in last.effects :
          /\ x.slot = r.slot
          /\ Box(x.after) # Box(x.before)
          /\ Box(x.after) # ExpandAndClip(r.det, FrameW, FrameH)
          /\ ValidBox(r.det, FrameW, FrameH)

\* the last frame had slots needing reseed and no detection left after the
\* reserved filter: nothing was reseeded, and every stale slot still in the
\* list has the bounds and the incremented lost it had after the tracking pass
NoDetectionNoReseed ==
    (last.kind = "multi" /\ last.stale # {} /\ last.offered = 0) =>
        /\ last.reseeds = {} /\ last.effects = {}
        /\ \A s \in last.stale :
              /\ last.track[s.slot].lost = s.lost
              /\ last.track[s.slot].misses = s.lost
              /\ \A i \in 1..Len(locked_rois) :
                    locked_rois[i].uid = s.uid =>
                        locked_rois[i].lost = s.lost /\ Box(locked_rois[i]) = s.box

\* one such frame: every ROI still in the list has the bounds and the estimator
\* it had when the frame began
NoDetectionLeavesList ==
    (last'.kind = "multi" /\ last'.stale # {} /\ last'.offered = 0) =>
        \A k \in 1..Len(last'.track) : \A i \in 1..Len(locked_rois') :
            locked_rois'[i].uid = last'.track[k].uid =>
                /\ Box(locked_rois'[i]) = Box(ListAtStart[k])
                /\ locked_rois'[i].pose = ListAtStart[k].pose

\* the frame after such a frame: a slot that was stale then and misses again
\* has lost one higher
StaleKeepsCounting ==
    ( /\ last.kind = "multi" /\ last.stale # {} /\ last.offered = 0
      /\ last'.kind = "multi" )
    => \A s \in last.stale : \A k \in 1..Len(last'.track) :
          (last'.track[k].uid = s.uid /\ last'.track[k].res = "miss")
             => last'.track[k].lost = s.lost + 1

\* C28: in a frame where slots need reseed and no detection is left (all
\* reserved, or none returned) the reseed step changes no ROI's bounds or
\* estimator, the stale slots keep their incremented lost, and lost grows by 1
\* on each further missed frame
C28_NoDetectionNoReseed ==
    []NoDetectionNoReseed /\ [][NoDetectionLeavesList /\ StaleKeepsCounting]_vars

\* C28 happens: every detection of the frame was reserved by a healthy ROI
\* while a slot was stale for the second frame running
C28_AllReservedStaleAgain ==
    /\ last.kind = "multi"
    /\ last.offered = 0 /\ last.reserved # {}
    /\ \E s \in last.stale : s.lost = FrameThreshold + 1

\* C29: _process_multiperson_frame calls the detector exactly once in a frame
\* in which one or more slots need reseed, and not at all in a frame in which
\* none does
C29_SharedDetectorCall ==
    last.kind = "multi" => last.calls = (IF last.stale # {} THEN 1 ELSE 0)

\* C29 happens: two slots needed reseed in one frame and shared its detections
C29_TwoSlotsOneCall ==
    /\ last.kind = "multi"
    /\ Cardinality(last.stale) = 2
    /\ last.offered >= 1
    /\ last.calls = 1

\* one step: a ROI that is in the list before and after it and whose slot was
\* not reseeded by it has the bounds it had (in a frame that seeded the list,
\* the bounds it was seeded with)
BoundsMoveOnlyByReseed ==
    /\ last'.kind = "multi" =>
          \A k \in 1..Len(last'.track) : \A i \in 1..Len(locked_rois') :
              ( /\ locked_rois'[i].uid = last'.track[k].uid
                /\ \A r \in last'.reseeds : r.slot # k )
              => Box(locked_rois'[i]) = Box(ListAtStart[k])
    /\ last'.kind # "multi" =>
          \A i \in 1..Len(locked_rois) : \A j \in 1..Len(locked_rois') :
              locked_rois'[j].uid = locked_rois[i].uid
                 => Box(locked_rois'[j]) = Box(locked_rois[i])

\* C30: in any frame a ROI whose slot is not reseeded in the frame has the same
\* bounds at the end of the frame as at its start, whether its estimator hit
\* or missed and whatever the dedup pass does to other ROIs
C30_BoundsMoveOnlyByReseed == [][BoundsMoveOnlyByReseed]_vars

\* C30 happens: a frame moved the bounds of a reseeded slot while another slot
\* missed and was not reseeded, and a third hit
C30_OneMovedOthersStay ==
    /\ last.kind = "multi"
    /\ \E x \in last.effects : Box(x.after) # Box(x.before)
    /\ \E k \in 1..Len(last.track) :
          /\ last.track[k].res = "miss"
          /\ \A r \in last.reseeds : r.slot # k
    /\ \E k \in 1..Len(last.track) : last.track[k].res = "hit"

\* one step on a list that holds a ROI: the list still holds a ROI after it, it
\* is no longer than it was, and the step made no seeding detector call
PopulationBounded ==
    locked_rois # <<>> =>
        /\ locked_rois' # <<>>
        /\ Len(locked_rois') <= Len(locked_rois)
        /\ last'.seed.calls = 0

\* one frame that went on past the seeding: the dedup pass marks fewer ROIs than
\* the list holds, and the list the frame leaves holds a ROI
DedupLeavesSurvivor ==
    last'.kind = "multi" =>
        /\ Cardinality(last'.dropped) < Len(last'.track)
        /\ locked_rois' # <<>>

FrameIdxCountsFrames == pc \in {"loop", "done"} => frame_idx = runs.decoded

\* one step: the rows a person_id had are kept, in order, and every row added
\* carries that person_id and the zero-based ordinal of the frame of the step
RowsCarryOrdinal ==
    \A p \in DOMAIN keypoints_by_person :
        /\ Len(keypoints_by_person'[p]) >= Len(keypoints_by_person[p])
        /\ \A k \in 1..Len(keypoints_by_person'[p]) :
              IF k <= Len(keypoints_by_person[p])
              THEN keypoints_by_person'[p][k] = keypoints_by_person[p][k]
              ELSE keypoints_by_person'[p][k] = [frame |-> runs.decoded, person_id |-> p]

\* the rows of one person_id have strictly increasing frame values
RowsStrictlyIncreasing ==
    \A p \in DOMAIN keypoints_by_person :
        \A k \in 1..(Len(keypoints_by_person[p]) - 1) :
            keypoints_by_person[p][k].frame < keypoints_by_person[p][k + 1].frame

\* C32: frame_idx is incremented exactly once per decoded frame on every path
\* through the loop (multi-person frame with ROIs, skipped multi-person frame,
\* single-person frame), so every row's frame value is the zero-based ordinal of
\* the frame it was computed from, and the rows of one person_id have strictly
\* increasing frame values
C32_FrameNumbering ==
    /\ []FrameIdxCountsFrames
    /\ [][RowsCarryOrdinal]_vars
    /\ []RowsStrictlyIncreasing

\* C32 happens: in multi-person mode the first frame was skipped, and person 0
\* has a row of the second frame followed by a row of the fourth
C32_SkipThenRowsWithGap ==
    /\ mode /\ pc = "loop"
    /\ Len(keypoints_by_person[0]) >= 2
    /\ keypoints_by_person[0][1].frame = 1
    /\ keypoints_by_person[0][2].frame = 3

\* the files handed to the per-file method so far are the first entries of the
\* list, one call per entry, in list order
AttemptedInListOrder ==
    /\ probe.i <= Len(probe.audio_files)
    /\ probe.attempted = SubSeq(probe.audio_files, 1, probe.i)
    /\ Len(probe.outcome) = probe.i

\* no exception leaves the batch call, and when it has returned every entry of
\* the list has been attempted
BatchReturnsComplete ==
    /\ pc # "raised"
    /\ pc = "returned" => probe.attempted = probe.audio_files

\* one step in which the per-file call fails: the loop goes on
FailureGoesOn ==
    (Len(probe'.outcome) > Len(probe.outcome) /\ probe'.outcome[Len(probe'.outcome)] = "error")
        => pc' = "batch"

=============================================================================
